---- MODULE Spec2Model ----
(***************************************************************************)
(* OpenAiAssistantHandler (src/unnamed/part_001): one createMessage        *)
(* invocation against a remote Assistants API.  The createMessage          *)
(* generator and the makeApiCall frame it awaits are modelled with their   *)
(* local variables; the remote service answers every HTTP request          *)
(* nondeterministically (success, 429, another HTTP error, a network       *)
(* error, a non-axios exception).                                          *)
(***************************************************************************)
EXTENDS Integers, Sequences, FiniteSets, TLC

VARIABLES
    assistantId,   \* this.assistantId (constructor, line 96)
    systemPrompt,  \* createMessage argument (line 147)
    messages,      \* createMessage argument (line 148)
    pc,            \* position of the createMessage generator
    thread,        \* const thread (line 159)
    fullMessage,   \* const fullMessage (line 165)
    run,           \* const run (line 175)
    currentRun,    \* let currentRun (line 182)
    runStatus,     \* let runStatus (line 181)
    elapsedTime,   \* let elapsedTime (line 185)
    messagesResponse, \* const messagesResponse (line 236)
    call,          \* the makeApiCall frame being awaited, or NoVal
    wire,          \* the HTTP request in flight (axios), or NoVal
    events,        \* what the generator has yielded so far
    outcome,       \* "running", "returned" or "threw"
    error,         \* the Error the generator threw, or NoVal
    remoteThreads, \* remote service: ids of the threads it created
    remoteRuns,    \* remote service: ids of the runs it created
    lastReq,       \* history: the last request put on the wire
    lastRes,       \* history: how the last request ended
    observed,      \* history: status in the last run object received
    observedError, \* history: last_error of the last run object received
    polls,         \* history: run-status fetches started (makeApiCall calls)
    listed,        \* history: a list-messages request was put on the wire
    scripted,      \* remote service: TRUE when it follows HappyScript
    lean,          \* remote service: TRUE when it answers with LeanResponse
    answers,       \* history: assistant-role messages in the listing
                   \* received (-1: no listing yet)
    clock,         \* history: ms slept since the run was created (poll
                   \* sleeps and 429 backoffs); -1: not measured
    mine,          \* history: the thread and run ids returned to this
                   \* invocation
    other          \* the registers of the invocation that is not running
                   \* now (NoVal: there is one invocation only)

vars == <<assistantId, systemPrompt, messages, pc, thread, fullMessage, run,
          currentRun, runStatus, elapsedTime, messagesResponse, call, wire,
          events, outcome, error, remoteThreads, remoteRuns, lastReq, lastRes,
          observed, observedError, polls, listed, scripted, answers, clock,
          mine, other, lean>>

NoVal == [none |-> TRUE]

----------------------------------------------------------------------------
(* Program constants *)

maxRetries == 2
retryDelay == 60000
maxWaitTime == 300000
pollInterval == 1000
providerName == "OpenAI Assistant"
Placeholder == "Tool execution not implemented"

----------------------------------------------------------------------------
(* Input sets *)

MaxToolCalls == 2
MaxMsgs == 2
MaxParts == 2
MaxTurns == 2
MaxSlowPolls == 1

AssistantIds == {"", "asst_1"}
ThreadIds == {"thread_1", "thread_2"}
RunIds == {"run_1", "run_2"}
ToolCallIds == {"call_a", "call_b"}
FailureStatuses == {"failed", "cancelled", "expired"}
Statuses == {"queued", "in_progress", "requires_action", "completed"}
                \cup FailureStatuses

SeqsUpTo(S, n) == UNION {[1..k -> S] : k \in 0..n}

ToolCallLists == SeqsUpTo({[id |-> i] : i \in ToolCallIds}, MaxToolCalls)

\* The run objects the remote service returns (RunResponse, lines 27-50):
\* required_action accompanies requires_action (or is missing), last_error
\* accompanies a failure status (or is missing).
BareRun(s) == [status |-> s, required_action |-> NoVal, last_error |-> NoVal]

RunShapes ==
    {BareRun(s) : s \in Statuses}
    \cup {[status |-> "requires_action",
           required_action |->
               [type |-> "submit_tool_outputs",
                submit_tool_outputs |-> [tool_calls |-> tc]],
           last_error |-> NoVal] : tc \in ToolCallLists}
    \cup {[status |-> s, required_action |-> NoVal,
           last_error |-> [code |-> "server_error", message |-> "boom"]] :
        s \in FailureStatuses}

\* A run as the remote service returns it from its creation: queued, or
\* already completed
CreatedRunShapes == {BareRun(s) : s \in {"queued", "completed"}}

----------------------------------------------------------------------------
(* Conversations handed to createMessage (Anthropic.Messages.MessageParam) *)

StringContent(s) == [kind |-> "string", text |-> s, parts |-> <<>>]
PartsContent(ps) == [kind |-> "parts", text |-> "", parts |-> ps]
OtherContent == [kind |-> "other", text |-> "", parts |-> <<>>]
TextPart(s) == [type |-> "text", text |-> s]
ImagePart == [type |-> "image", text |-> ""]

SampleConversations ==
    {[systemPrompt |-> "sys",
      messages |-> <<[role |-> "user", content |-> StringContent("hi")],
                     [role |-> "assistant",
                      content |-> PartsContent(<<TextPart("a"), ImagePart,
                                                 TextPart("b")>>)]>>]}

\* Every conversation of up to MaxTurns messages, user and assistant taking
\* turns, over a few contents: strings (one of them empty), lists of up to
\* MaxParts parts, and a content that is neither
Contents ==
    {StringContent(""), StringContent("hi"), OtherContent}
    \cup {PartsContent(ps) :
             ps \in SeqsUpTo({TextPart("a"), TextPart("b"), ImagePart},
                             MaxParts)}

TurnRole(i) == IF i % 2 = 1 THEN "user" ELSE "assistant"

AllConversations ==
    {[systemPrompt |-> p,
      messages |-> [i \in 1..Len(cs) |->
                       [role |-> TurnRole(i), content |-> cs[i]]]] :
        p \in {"", "sys"}, cs \in SeqsUpTo(Contents, MaxTurns)}

----------------------------------------------------------------------------
(* Thread listings the remote service returns (MessagesListResponse) *)

TextValue(v) == [type |-> "text", text |-> [value |-> v, annotations |-> <<>>]]
ImageFile == [type |-> "image_file", text |-> NoVal]
TextMissing == [type |-> "text", text |-> NoVal]
ContentParts == {TextValue("a"), TextValue("b"), ImageFile, TextMissing}

UserEntry == [role |-> "user", content |-> <<TextValue("sys")>>]
AssistantEntry(c) == [role |-> "assistant", content |-> c]

SampleListings ==
    {<<>>,
     <<UserEntry>>,
     <<AssistantEntry(<<TextValue("a"), TextValue("b")>>), UserEntry>>,
     <<UserEntry, AssistantEntry(<<ImageFile, TextValue("b"), TextMissing>>),
       AssistantEntry(<<TextValue("a")>>)>>}

AllListings ==
    SeqsUpTo({UserEntry}
             \cup {AssistantEntry(c) : c \in SeqsUpTo(ContentParts, MaxParts)},
             MaxMsgs)

----------------------------------------------------------------------------
(* Pure helpers *)

\* Array.prototype.join
RECURSIVE Join(_, _)
Join(strs, sep) ==
    IF Len(strs) = 0 THEN ""
    ELSE IF Len(strs) = 1 THEN strs[1]
    ELSE strs[1] \o sep \o Join(Tail(strs), sep)

\* The per-message string of constructUserMessage (lines 296-307)
FlattenMessage(msg) ==
    IF msg.content.kind = "string"
    THEN msg.role \o ": " \o msg.content.text
    ELSE IF msg.content.kind = "parts"
    THEN LET texts == SelectSeq(msg.content.parts,
                                LAMBDA part : part.type = "text")
             textParts == Join([i \in 1..Len(texts) |-> texts[i].text], "\n")
         IN  msg.role \o ": " \o textParts
    ELSE ""

\* Mutant: the empty per-message strings are not filtered out
constructUserMessageKeepEmpty(prompt, msgs) ==
    LET mapped == [i \in 1..Len(msgs) |-> FlattenMessage(msgs[i])]
    IN  prompt \o "\n\n" \o Join(mapped, "\n\n")

\* constructUserMessage (lines 293-313)
constructUserMessage(prompt, msgs) ==
    LET mapped == [i \in 1..Len(msgs) |-> FlattenMessage(msgs[i])]
        kept == SelectSeq(mapped, LAMBDA text : Len(text) > 0)
        conversationText == Join(kept, "\n\n")
    IN  prompt \o "\n\n" \o conversationText

\* Mutant: the role is not looked at
AssistantMessagesAll(data) == data

\* messagesResponse.data.filter(role === "assistant") (line 242)
AssistantMessages(data) == SelectSeq(data, LAMBDA msg : msg.role = "assistant")

\* assistantMessages.length === 0 (line 243)
NoAnswer(assistantMessages) == Len(assistantMessages) = 0

\* textContent of a message (lines 248-251)
TextContent(message) ==
    LET texts == SelectSeq(message.content,
                           LAMBDA c : c.type = "text" /\ c.text # NoVal)
    IN  Join([i \in 1..Len(texts) |-> texts[i].text.value], "\n")

\* Mutant: only the first tool call is answered
ToolOutputsFirstOnly(toolCalls) ==
    IF Len(toolCalls) = 0 THEN <<>>
    ELSE <<[tool_call_id |-> toolCalls[1].id, output |-> Placeholder]>>

\* toolOutputs (lines 216-219)
ToolOutputs(toolCalls) ==
    [i \in 1..Len(toolCalls) |->
        [tool_call_id |-> toolCalls[i].id, output |-> Placeholder]]

\* errorDetails (lines 201-203)
ErrorDetails(r) ==
    IF r.last_error # NoVal
    THEN r.last_error.code \o ": " \o r.last_error.message
    ELSE "No error details available"

\* Endpoints (lines 159, 168, 175, 191, 221, 238)

ThreadsPath == <<"threads">>
\* Mutant: the thread id is a field of the handler, which the other
\* invocation overwrites with its own thread
MessagesPathShared(tid) ==
    <<"threads",
      IF other # NoVal /\ other.thread # NoVal THEN other.thread.id ELSE tid,
      "messages">>
MessagesPath(tid) == <<"threads", tid, "messages">>
RunsPath(tid) == <<"threads", tid, "runs">>
\* Mutant: the run is looked up on a fixed thread
RunPathFixedThread(tid, rid) == <<"threads", "thread_1", "runs", rid>>
RunPath(tid, rid) == <<"threads", tid, "runs", rid>>
SubmitPath(tid, rid) == <<"threads", tid, "runs", rid, "submit_tool_outputs">>

\* Which operation of the remote API a request is
ReqKind(req) ==
    LET m == req.method
        e == req.endpoint
    IN  CASE m = "POST" /\ Len(e) = 1 -> "createThread"
          [] m = "POST" /\ Len(e) = 3 /\ e[3] = "messages" -> "postMessage"
          [] m = "POST" /\ Len(e) = 3 /\ e[3] = "runs" -> "createRun"
          [] m = "GET" /\ Len(e) = 4 -> "getRun"
          [] m = "POST" /\ Len(e) = 5 -> "submitToolOutputs"
          [] m = "GET" /\ Len(e) = 3 /\ e[3] = "messages" -> "listMessages"
          [] OTHER -> "unknown"

----------------------------------------------------------------------------
(* What axios can throw (lines 121-125) *)

\* status 0: no response was received; remoteMessage "": the response body
\* carries no error.message
AxiosErrors ==
    {[isAxiosError |-> TRUE, status |-> 429,
      remoteMessage |-> "Rate limit reached",
      message |-> "Request failed with status code 429"],
     [isAxiosError |-> TRUE, status |-> 500, remoteMessage |-> "",
      message |-> "Request failed with status code 500"],
     [isAxiosError |-> TRUE, status |-> 0, remoteMessage |-> "",
      message |-> "Network Error"],
     [isAxiosError |-> FALSE, status |-> 0, remoteMessage |-> "",
      message |-> "unexpected"]}

\* const message = error.response?.data?.error?.message || error.message
ApiErrorMessage(err) ==
    IF err.remoteMessage # "" THEN err.remoteMessage ELSE err.message

\* Mutant: one retry too many
CanRetryInclusive(statusCode, retryCount) ==
    statusCode = 429 /\ retryCount <= maxRetries

\* Mutant: the status code is not looked at
CanRetryAnyStatus(statusCode, retryCount) == retryCount < maxRetries

\* statusCode === 429 && retryCount < maxRetries (line 128)
CanRetry(statusCode, retryCount) ==
    statusCode = 429 /\ retryCount < maxRetries

\* new Error(`${this.providerName} API error: ${message}`) (line 140);
\* a non-axios error is rethrown as it is (line 142)
ApiError(err) ==
    IF err.isAxiosError
    THEN [message |-> providerName \o " API error: " \o ApiErrorMessage(err)]
    ELSE [message |-> err.message]

\* The catch of createMessage (lines 267-273)
WrapError(err) == [message |-> providerName \o " error: " \o err.message]

\* Mutant: the identifier is never found missing
MissingAssistantIdNever(id) == FALSE

\* !this.assistantId (line 152)
MissingAssistantId(id) == id = ""

\* Mutant: the budget test lets one more round through
LoopContinuesInclusive(status, elapsed) ==
    status # "completed" /\ elapsed <= maxWaitTime

\* Mutant: the loop gives up one interval early
LoopContinuesEarly(status, elapsed) ==
    status # "completed" /\ elapsed < maxWaitTime - pollInterval

\* while (runStatus !== "completed" && elapsedTime < maxWaitTime) (line 187)
LoopContinues(status, elapsed) ==
    status # "completed" /\ elapsed < maxWaitTime

\* Mutant: the test after the loop is inverted
TimedOutInverted(status) == status = "completed"

\* if (runStatus !== "completed") (line 228)
TimedOut(status) == status # "completed"

\* Mutant: "expired" is forgotten
IsFailureNoExpired(status) == status \in {"failed", "cancelled"}

\* runStatus === "failed" || "cancelled" || "expired" (line 200)
IsFailure(status) == status \in {"failed", "cancelled", "expired"}

\* Mutant: tool outputs are submitted after the first fetch only
NeedsToolOutputsFirstPoll(r) ==
    r.status = "requires_action" /\ r.required_action # NoVal /\ polls = 1

\* runStatus === "requires_action" && currentRun.required_action (line 211)
NeedsToolOutputs(r) ==
    r.status = "requires_action" /\ r.required_action # NoVal

\* new Error(`Assistant run ${runStatus}: ${errorDetails}`) (line 207)
RunFailure(r) ==
    [message |-> "Assistant run " \o r.status \o ": " \o ErrorDetails(r)]

\* Mutant: the usage event reports a token count
UsageEventCounting == [type |-> "usage", inputTokens |-> 1, outputTokens |-> 0]

TextEvent(text) == [type |-> "text", text |-> text]
UsageEvent == [type |-> "usage", inputTokens |-> 0, outputTokens |-> 0]

\* Mutant: the retry count is an instance field that outlives the call
makeApiCallCarry(method, endpoint, data) ==
    [method |-> method, endpoint |-> endpoint, data |-> data,
     retryCount |-> IF call # NoVal THEN call.retryCount ELSE 0,
     phase |-> "send", attempts |-> 0, n429 |-> 0, waited |-> 0]

\* A fresh makeApiCall frame (line 108: retryCount = 0); attempts, n429 and
\* waited record what the frame has done
makeApiCall(method, endpoint, data) ==
    [method |-> method, endpoint |-> endpoint, data |-> data,
     retryCount |-> 0, phase |-> "send",
     attempts |-> 0, n429 |-> 0, waited |-> 0]

\* A frame whose call is over keeps what it did
Ended(frame, how) ==
    [frame EXCEPT !.phase = how, !.data = NoVal]

EmptyObject == [empty |-> TRUE]

----------------------------------------------------------------------------
(* Responses of the remote service *)

\* A remote service that never fails and whose run goes queued ->
\* in_progress -> completed: the run is created queued, the first fetch
\* finds it in_progress, every later one completed
HappyScript(req) ==
    LET kind == ReqKind(req)
    IN  CASE kind = "createThread" -> {[id |-> "thread_1"]}
          [] kind = "postMessage" ->
                {[id |-> "msg_1", thread_id |-> req.endpoint[2]]}
          [] kind = "createRun" -> {[id |-> "run_1"] @@ BareRun("queued")}
          [] kind = "getRun" ->
                {[id |-> req.endpoint[4]]
                    @@ BareRun(IF polls <= 1 THEN "in_progress"
                               ELSE "completed")}
          [] kind = "listMessages" -> {[data |-> d] : d \in AllListings}
          [] OTHER -> {}

AnyResponse(req) ==
    LET kind == ReqKind(req)
    IN  CASE kind = "createThread" ->
                {[id |-> t] : t \in ThreadIds \ remoteThreads}
          [] kind = "postMessage" ->
                {[id |-> "msg_1", thread_id |-> req.endpoint[2]]}
          [] kind = "createRun" ->
                {[id |-> r] @@ shape :
                    r \in RunIds \ remoteRuns, shape \in CreatedRunShapes}
          [] kind = "getRun" ->
                {[id |-> req.endpoint[4]] @@ shape : shape \in RunShapes}
          [] kind = "submitToolOutputs" ->
                {[id |-> req.endpoint[4]] @@ BareRun("queued")}
          [] kind = "listMessages" ->
                {[data |-> d] : d \in SampleListings}
          [] OTHER -> {}

\* A remote service shared by two invocations: like AnyResponse, but a run
\* is fetched unfinished at most MaxSlowPolls times and asks for one tool
\* call at most
PromptRunShapes ==
    {BareRun("completed"), BareRun("failed")}
    \cup (IF polls <= MaxSlowPolls
          THEN {BareRun("queued"),
                [status |-> "requires_action",
                 required_action |->
                     [type |-> "submit_tool_outputs",
                      submit_tool_outputs |->
                          [tool_calls |-> <<[id |-> "call_a"]>>]],
                 last_error |-> NoVal]}
          ELSE {})

PromptResponse(req) ==
    IF ReqKind(req) = "getRun"
    THEN {[id |-> req.endpoint[4]] @@ shape : shape \in PromptRunShapes}
    ELSE AnyResponse(req)

\* A remote service that is as free as AnyResponse in the status it
\* reports, fetch after fetch, but asks for one tool call at most and gives
\* no failure detail
LeanRunShapes ==
    {BareRun(s) : s \in Statuses}
    \cup {[status |-> "requires_action",
           required_action |->
               [type |-> "submit_tool_outputs",
                submit_tool_outputs |->
                    [tool_calls |-> <<[id |-> "call_a"]>>]],
           last_error |-> NoVal]}

LeanResponse(req) ==
    IF ReqKind(req) = "getRun"
    THEN {[id |-> req.endpoint[4]] @@ shape : shape \in LeanRunShapes}
    ELSE AnyResponse(req)

Responses(req) ==
    IF scripted THEN HappyScript(req)
    ELSE IF other # NoVal THEN PromptResponse(req)
    ELSE IF lean THEN LeanResponse(req)
    ELSE AnyResponse(req)

----------------------------------------------------------------------------
(* State machine *)

Init ==
    /\ assistantId \in AssistantIds
    /\ \E c \in SampleConversations :
          /\ systemPrompt = c.systemPrompt
          /\ messages = c.messages
    /\ pc = "start"
    /\ thread = NoVal
    /\ fullMessage = ""
    /\ run = NoVal
    /\ currentRun = NoVal
    /\ runStatus = ""
    /\ elapsedTime = 0
    /\ messagesResponse = NoVal
    /\ call = NoVal
    /\ wire = NoVal
    /\ events = <<>>
    /\ outcome = "running"
    /\ error = NoVal
    /\ remoteThreads = {}
    /\ remoteRuns = {}
    /\ lastReq = "none"
    /\ lastRes = "none"
    /\ observed = "none"
    /\ observedError = NoVal
    /\ polls = 0
    /\ listed = FALSE
    /\ scripted = FALSE
    /\ lean = FALSE
    /\ answers = -1
    /\ clock = -1
    /\ mine = {}
    /\ other = NoVal

\* What no step of createMessage or makeApiCall changes: the handler's
\* configuration, the arguments, and the invocation that is not running
Config == <<assistantId, systemPrompt, messages, other>>
Remote == <<remoteThreads, remoteRuns, scripted, lean>>
History == <<lastReq, lastRes, observed, observedError, polls, listed,
             answers, clock, mine>>
Locals == <<thread, fullMessage, run, currentRun, runStatus, elapsedTime,
            messagesResponse>>

\* The measured time stops at ClockCap: past maxWaitTime, how far past
\* does not matter
ClockCap == maxWaitTime + pollInterval

\* this.sleep(ms) (lines 318-320), as the clock sees it: time since the run
\* was created, when it is measured
Slept(ms) ==
    IF clock < 0 \/ run = NoVal THEN clock
    ELSE IF clock + ms > ClockCap THEN ClockCap ELSE clock + ms

\* The generator is over: its frame is gone
Unwind ==
    /\ pc' = "done"
    /\ thread' = NoVal
    /\ fullMessage' = ""
    /\ run' = NoVal
    /\ currentRun' = NoVal
    /\ runStatus' = ""
    /\ elapsedTime' = 0
    /\ messagesResponse' = NoVal

\* The generator ends by throwing err
Throw(err) ==
    /\ outcome' = "threw"
    /\ error' = err
    /\ Unwind

\* createMessage, lines 151-159: validate, then ask for a thread
Invoke ==
    /\ pc = "start"
    /\ IF MissingAssistantId(assistantId)
       THEN /\ Throw([message |-> "OpenAI Assistant ID is required"])
            /\ call' = NoVal
       ELSE /\ pc' = "createThread"
            /\ call' = makeApiCall("POST", ThreadsPath, EmptyObject)
            /\ UNCHANGED <<Locals, outcome, error>>
    /\ UNCHANGED <<Config, wire, events, Remote, History>>

\* makeApiCall, lines 113-119: the request goes out
AxiosSend ==
    /\ call # NoVal
    /\ call.phase = "send"
    /\ wire = NoVal
    /\ wire' = [method |-> call.method, endpoint |-> call.endpoint,
                data |-> call.data]
    /\ call' = [call EXCEPT !.phase = "wait", !.attempts = @ + 1]
    /\ lastReq' = ReqKind(wire')
    /\ lastRes' = "pending"
    /\ listed' = (listed \/ ReqKind(wire') = "listMessages")
    /\ UNCHANGED <<Config, pc, Locals, events, outcome, error, Remote,
                   observed, observedError, polls, answers, clock, mine>>

\* makeApiCall, lines 121-143: axios threw.  A 429 with retries left goes
\* to sleep (line 133); anything else is thrown, and the catch of
\* createMessage (lines 267-273) wraps it and ends the generator
AxiosThrows ==
    /\ wire # NoVal
    /\ \E err \in AxiosErrors :
          /\ lastRes' = IF err.status = 429 THEN "429" ELSE "error"
          /\ IF err.isAxiosError /\ CanRetry(err.status, call.retryCount)
             THEN /\ call' = [call EXCEPT !.phase = "backoff",
                                          !.n429 = @ + 1]
                  /\ UNCHANGED <<pc, Locals, outcome, error>>
             ELSE /\ call' = Ended([call EXCEPT
                                       !.n429 = IF err.status = 429
                                                THEN @ + 1 ELSE @],
                                   "threw")
                  /\ Throw(WrapError(ApiError(err)))
    /\ wire' = NoVal
    /\ UNCHANGED <<Config, events, Remote, lastReq, observed, observedError,
                   polls, listed, answers, clock, mine>>

\* Mutant: the promise of sleep is never resolved
BackoffNeverDone == FALSE /\ UNCHANGED vars

\* makeApiCall, lines 133-134: the 60 s sleep ends; call again with
\* retryCount + 1
BackoffDone ==
    /\ call # NoVal
    /\ call.phase = "backoff"
    /\ call' = [call EXCEPT !.phase = "send",
                            !.retryCount = @ + 1,
                            !.waited = @ + retryDelay]
    /\ clock' = Slept(retryDelay)
    /\ UNCHANGED <<Config, pc, Locals, wire, events, outcome, error, Remote,
                   lastReq, lastRes, observed, observedError, polls, listed,
                   answers, mine>>

\* makeApiCall, line 120: a 2xx response resp to the request on the wire;
\* response.data is returned to the await of createMessage
Ok(resp) ==
    /\ wire' = NoVal
    /\ lastRes' = "ok"
    /\ remoteThreads' = IF ReqKind(wire) = "createThread"
                        THEN remoteThreads \cup {resp.id}
                        ELSE remoteThreads
    /\ remoteRuns' = IF ReqKind(wire) = "createRun"
                     THEN remoteRuns \cup {resp.id}
                     ELSE remoteRuns
    /\ observed' = IF ReqKind(wire) \in {"createRun", "getRun"}
                   THEN resp.status
                   ELSE observed
    /\ observedError' = IF ReqKind(wire) \in {"createRun", "getRun"}
                        THEN resp.last_error
                        ELSE observedError
    /\ answers' = IF ReqKind(wire) = "listMessages"
                  THEN Cardinality({i \in 1..Len(resp.data) :
                                       resp.data[i].role = "assistant"})
                  ELSE answers
    /\ mine' = IF ReqKind(wire) \in {"createThread", "createRun"}
               THEN mine \cup {resp.id}
               ELSE mine
    /\ UNCHANGED <<lastReq, polls, listed, scripted, lean, clock>>

Awaiting(at) == pc = at /\ wire # NoVal

\* createMessage, lines 159-171: the thread is there; flatten and post
ThreadCreated ==
    /\ Awaiting("createThread")
    /\ \E resp \in Responses(wire) :
          /\ Ok(resp)
          /\ thread' = resp
    /\ fullMessage' = constructUserMessage(systemPrompt, messages)
    /\ call' = makeApiCall("POST", MessagesPath(thread'.id),
                           [role |-> "user", content |-> fullMessage'])
    /\ pc' = "postMessage"
    /\ UNCHANGED <<Config, run, currentRun, runStatus, elapsedTime,
                   messagesResponse, events, outcome, error>>

\* createMessage, lines 168-177: the message is posted; create the run
MessagePosted ==
    /\ Awaiting("postMessage")
    /\ \E resp \in Responses(wire) : Ok(resp)
    /\ call' = makeApiCall("POST", RunsPath(thread.id),
                           [assistant_id |-> assistantId])
    /\ pc' = "createRun"
    /\ UNCHANGED <<Config, Locals, events, outcome, error>>

\* createMessage, lines 175-185: the run is there; set up the poll loop
RunCreated ==
    /\ Awaiting("createRun")
    /\ \E resp \in Responses(wire) :
          /\ Ok(resp)
          /\ run' = resp
          /\ runStatus' = resp.status
          /\ currentRun' = resp
    /\ elapsedTime' = 0
    /\ call' = Ended(call, "returned")
    /\ pc' = "loop"
    /\ UNCHANGED <<Config, thread, fullMessage, messagesResponse, events,
                   outcome, error>>

\* createMessage, lines 187-191: one more round: sleep, count, fetch
PollNext ==
    /\ pc = "loop"
    /\ LoopContinues(runStatus, elapsedTime)
    /\ elapsedTime' = elapsedTime + pollInterval
    /\ call' = makeApiCall("GET", RunPath(thread.id, run.id), NoVal)
    /\ polls' = polls + 1
    /\ clock' = Slept(pollInterval)
    /\ pc' = "poll"
    /\ UNCHANGED <<Config, thread, fullMessage, run, currentRun, runStatus,
                   messagesResponse, wire, events, outcome, error, Remote,
                   lastReq, lastRes, observed, observedError, listed,
                   answers, mine>>

\* createMessage, lines 191-226: the run object is back
RunFetched ==
    /\ Awaiting("poll")
    /\ \E r \in Responses(wire) :
          /\ Ok(r)
          /\ IF IsFailure(r.status)
             THEN /\ Throw(WrapError(RunFailure(r)))
                  /\ call' = NoVal
             ELSE /\ currentRun' = r
                  /\ runStatus' = r.status
                  /\ IF NeedsToolOutputs(r)
                     THEN /\ call' = makeApiCall(
                                 "POST", SubmitPath(thread.id, run.id),
                                 [tool_outputs |-> ToolOutputs(
                                     r.required_action.submit_tool_outputs
                                         .tool_calls)])
                          /\ pc' = "submit"
                     ELSE /\ call' = Ended(call, "returned")
                          /\ pc' = "loop"
                  /\ UNCHANGED <<thread, fullMessage, run, elapsedTime,
                                 messagesResponse, outcome, error>>
    /\ UNCHANGED <<Config, events>>

\* createMessage, lines 221-226: the tool outputs are in; back to the loop
ToolOutputsSubmitted ==
    /\ Awaiting("submit")
    /\ \E resp \in Responses(wire) : Ok(resp)
    /\ call' = Ended(call, "returned")
    /\ pc' = "loop"
    /\ UNCHANGED <<Config, Locals, events, outcome, error>>

\* createMessage, lines 228-231: the loop ended without "completed"
Timeout ==
    /\ pc = "loop"
    /\ ~LoopContinues(runStatus, elapsedTime)
    /\ TimedOut(runStatus)
    /\ Throw(WrapError([message |-> "Assistant run timeout"]))
    /\ call' = NoVal
    /\ UNCHANGED <<Config, wire, events, Remote, History>>

\* createMessage, lines 233-239: the run completed; list the messages
FetchMessages ==
    /\ pc = "loop"
    /\ ~LoopContinues(runStatus, elapsedTime)
    /\ ~TimedOut(runStatus)
    /\ call' = makeApiCall("GET", MessagesPath(thread.id), NoVal)
    /\ pc' = "listMessages"
    /\ UNCHANGED <<Config, Locals, wire, events, outcome, error, Remote,
                   History>>

\* createMessage, lines 236-259: pick the answer and yield the text event
MessagesListed ==
    /\ Awaiting("listMessages")
    /\ \E resp \in Responses(wire) :
          /\ Ok(resp)
          /\ LET assistantMessages == AssistantMessages(resp.data)
             IN  IF NoAnswer(assistantMessages)
                 THEN /\ Throw(WrapError(
                             [message |-> "No assistant response found"]))
                      /\ call' = NoVal
                      /\ UNCHANGED events
                 ELSE /\ messagesResponse' = resp
                      /\ events' = Append(events, TextEvent(
                                       TextContent(assistantMessages[1])))
                      /\ call' = Ended(call, "returned")
                      /\ pc' = "yieldText"
                      /\ UNCHANGED <<thread, fullMessage, run, currentRun,
                                     runStatus, elapsedTime, outcome, error>>
    /\ UNCHANGED Config

\* createMessage, lines 262-266: resumed after the text event
YieldUsage ==
    /\ pc = "yieldText"
    /\ events' = Append(events, UsageEvent)
    /\ pc' = "yieldUsage"
    /\ UNCHANGED <<Config, Locals, call, wire, outcome, error, Remote,
                   History>>

\* createMessage, line 267: resumed after the usage event; the generator
\* returns
Return ==
    /\ pc = "yieldUsage"
    /\ outcome' = "returned"
    /\ Unwind
    /\ call' = NoVal
    /\ UNCHANGED <<Config, wire, events, error, Remote, History>>

Next ==
    \/ Invoke
    \/ AxiosSend
    \/ AxiosThrows
    \/ BackoffDone
    \/ ThreadCreated
    \/ MessagePosted
    \/ RunCreated
    \/ PollNext
    \/ RunFetched
    \/ ToolOutputsSubmitted
    \/ Timeout
    \/ FetchMessages
    \/ MessagesListed
    \/ YieldUsage
    \/ Return

Spec == Init /\ [][Next]_vars

\* One invocation, well configured, against the scripted remote service
InitExtract ==
    /\ assistantId = "asst_1"
    /\ \E c \in SampleConversations :
          /\ systemPrompt = c.systemPrompt
          /\ messages = c.messages
    /\ pc = "start"
    /\ thread = NoVal
    /\ fullMessage = ""
    /\ run = NoVal
    /\ currentRun = NoVal
    /\ runStatus = ""
    /\ elapsedTime = 0
    /\ messagesResponse = NoVal
    /\ call = NoVal
    /\ wire = NoVal
    /\ events = <<>>
    /\ outcome = "running"
    /\ error = NoVal
    /\ remoteThreads = {}
    /\ remoteRuns = {}
    /\ lastReq = "none"
    /\ lastRes = "none"
    /\ observed = "none"
    /\ observedError = NoVal
    /\ polls = 0
    /\ listed = FALSE
    /\ scripted = TRUE
    /\ lean = FALSE
    /\ answers = -1
    /\ clock = -1
    /\ mine = {}
    /\ other = NoVal

NextExtract ==
    \/ Invoke
    \/ AxiosSend
    \/ ThreadCreated
    \/ MessagePosted
    \/ RunCreated
    \/ PollNext
    \/ RunFetched
    \/ FetchMessages
    \/ MessagesListed
    \/ YieldUsage
    \/ Return

SpecExtract == InitExtract /\ [][NextExtract]_vars

\* A generator that has not been started (createMessage called, nothing run)
Fresh ==
    /\ pc = "start"
    /\ thread = NoVal
    /\ fullMessage = ""
    /\ run = NoVal
    /\ currentRun = NoVal
    /\ runStatus = ""
    /\ elapsedTime = 0
    /\ messagesResponse = NoVal
    /\ call = NoVal
    /\ wire = NoVal
    /\ events = <<>>
    /\ outcome = "running"
    /\ error = NoVal
    /\ lastReq = "none"
    /\ lastRes = "none"
    /\ observed = "none"
    /\ observedError = NoVal
    /\ polls = 0
    /\ listed = FALSE
    /\ answers = -1
    /\ mine = {}

\* One invocation against the lean remote service, with the time slept
\* since the run was created measured
InitClock ==
    /\ assistantId \in AssistantIds
    /\ \E c \in SampleConversations :
          /\ systemPrompt = c.systemPrompt
          /\ messages = c.messages
    /\ Fresh
    /\ remoteThreads = {}
    /\ remoteRuns = {}
    /\ scripted = FALSE
    /\ lean = TRUE
    /\ clock = 0
    /\ other = NoVal

SpecClock == InitClock /\ [][Next]_vars

\* The registers of the invocation that is running: its position, locals,
\* call frame, request in flight, what it has produced, and its history
Regs ==
    [pc |-> pc, thread |-> thread, fullMessage |-> fullMessage, run |-> run,
     currentRun |-> currentRun, runStatus |-> runStatus,
     elapsedTime |-> elapsedTime, messagesResponse |-> messagesResponse,
     call |-> call, wire |-> wire, events |-> events, outcome |-> outcome,
     error |-> error, lastReq |-> lastReq, lastRes |-> lastRes,
     observed |-> observed, observedError |-> observedError,
     polls |-> polls, listed |-> listed, answers |-> answers, mine |-> mine]

FreshRegs ==
    [pc |-> "start", thread |-> NoVal, fullMessage |-> "", run |-> NoVal,
     currentRun |-> NoVal, runStatus |-> "", elapsedTime |-> 0,
     messagesResponse |-> NoVal, call |-> NoVal, wire |-> NoVal,
     events |-> <<>>, outcome |-> "running", error |-> NoVal,
     lastReq |-> "none", lastRes |-> "none", observed |-> "none",
     observedError |-> NoVal, polls |-> 0, listed |-> FALSE, answers |-> -1,
     mine |-> {}]

\* The running invocation is at an await (a response, a sleep, the
\* consumer) or over: between a response and the next request it runs
\* without giving way
AtAwait == IF call = NoVal THEN TRUE ELSE call.phase # "send"

\* The event loop goes on with the other invocation
Switch ==
    /\ other # NoVal
    /\ AtAwait
    /\ other' = Regs
    /\ pc' = other.pc
    /\ thread' = other.thread
    /\ fullMessage' = other.fullMessage
    /\ run' = other.run
    /\ currentRun' = other.currentRun
    /\ runStatus' = other.runStatus
    /\ elapsedTime' = other.elapsedTime
    /\ messagesResponse' = other.messagesResponse
    /\ call' = other.call
    /\ wire' = other.wire
    /\ events' = other.events
    /\ outcome' = other.outcome
    /\ error' = other.error
    /\ lastReq' = other.lastReq
    /\ lastRes' = other.lastRes
    /\ observed' = other.observed
    /\ observedError' = other.observedError
    /\ polls' = other.polls
    /\ listed' = other.listed
    /\ answers' = other.answers
    /\ mine' = other.mine
    /\ UNCHANGED <<assistantId, systemPrompt, messages, Remote, clock>>

\* Two invocations of createMessage on one handler, neither started yet
InitPair ==
    /\ assistantId \in AssistantIds
    /\ \E c \in SampleConversations :
          /\ systemPrompt = c.systemPrompt
          /\ messages = c.messages
    /\ Fresh
    /\ remoteThreads = {}
    /\ remoteRuns = {}
    /\ scripted = FALSE
    /\ lean = FALSE
    /\ clock = -1
    /\ other = FreshRegs

NextPair ==
    \/ Invoke
    \/ AxiosSend
    \/ AxiosThrows
    \/ BackoffDone
    \/ ThreadCreated
    \/ MessagePosted
    \/ RunCreated
    \/ PollNext
    \/ RunFetched
    \/ ToolOutputsSubmitted
    \/ FetchMessages
    \/ MessagesListed
    \/ YieldUsage
    \/ Return
    \/ Switch

SpecPair == InitPair /\ [][NextPair]_vars

\* One invocation against the lean remote service, in an environment that
\* keeps going: a request in flight is answered (by a response or an
\* error), a sleep ends, the consumer asks for the next event. What is
\* enabled is never left waiting for ever.
InitFair ==
    /\ assistantId \in AssistantIds
    /\ \E c \in SampleConversations :
          /\ systemPrompt = c.systemPrompt
          /\ messages = c.messages
    /\ Fresh
    /\ remoteThreads = {}
    /\ remoteRuns = {}
    /\ scripted = FALSE
    /\ lean = TRUE
    /\ clock = -1
    /\ other = NoVal

SpecFair == InitFair /\ [][Next]_vars /\ WF_vars(Next)

\* The flattener at work: any conversation, up to the posting of the
\* flattened text to the thread
InitFlatten ==
    /\ assistantId = "asst_1"
    /\ \E c \in AllConversations :
          /\ systemPrompt = c.systemPrompt
          /\ messages = c.messages
    /\ Fresh
    /\ remoteThreads = {}
    /\ remoteRuns = {}
    /\ scripted = TRUE
    /\ lean = FALSE
    /\ clock = -1
    /\ other = NoVal

NextFlatten ==
    \/ Invoke
    \/ AxiosSend
    \/ ThreadCreated

SpecFlatten == InitFlatten /\ [][NextFlatten]_vars

----------------------------------------------------------------------------
(* Properties *)

MaxPolls == maxWaitTime \div pollInterval

SendStep == wire = NoVal /\ wire' # NoVal

\* Which request may follow which, once the earlier one has returned
Follows ==
    {<<"none", "createThread">>, <<"createThread", "postMessage">>,
     <<"postMessage", "createRun">>, <<"createRun", "getRun">>,
     <<"getRun", "getRun">>, <<"getRun", "submitToolOutputs">>,
     <<"submitToolOutputs", "getRun">>, <<"createRun", "listMessages">>,
     <<"getRun", "listMessages">>, <<"submitToolOutputs", "listMessages">>}

\* C1: every request that goes out is either the re-issue of the request
\* that has just been answered 429, or the next step of create-thread,
\* post-message, create-run, run-status fetches (each optionally followed
\* by submit_tool_outputs), list-messages, issued after the previous step
\* has returned successfully; list-messages goes out only when the last
\* run status observed is "completed".
C1_StrictOrder ==
    [][SendStep =>
         LET new == ReqKind(wire')
         IN  /\ \/ lastRes = "429" /\ new = lastReq
                \/ lastRes \in {"none", "ok"} /\ <<lastReq, new>> \in Follows
             /\ (lastRes = "none") = (lastReq = "none")
             /\ new = "listMessages" => observed = "completed"]_vars

C1_Witness ==
    /\ pc = "listMessages"
    /\ wire # NoVal
    /\ polls = 3
    /\ call.retryCount = 1

\* C2: an invocation that threw has emitted nothing; one that returned has
\* emitted exactly a text event and then a usage event with zero token
\* counts; at no time is anything else emitted.
C2_EventSequence ==
    /\ outcome = "threw" => events = <<>>
    /\ outcome = "returned" => Len(events) = 2
    /\ Len(events) <= 2
    /\ Len(events) >= 1 => events[1].type = "text"
    /\ Len(events) = 2 =>
          events[2] = [type |-> "usage", inputTokens |-> 0, outputTokens |-> 0]

C2_Witness == outcome = "returned" /\ Len(events) = 2 /\ polls = 2

Unfinished == {"queued", "in_progress", "requires_action"}

\* C3: there is never a 301st run-status fetch; once 300 fetches have been
\* answered and the last status observed is neither completed nor a failure,
\* nothing has been or is emitted, list-messages is not requested, the only
\* way on is the timeout, and the invocation, once over without a transport
\* failure, has thrown "Assistant run timeout".
C3_Timeout ==
    /\ polls <= MaxPolls
    /\ (polls = MaxPolls /\ observed \in Unfinished /\ lastRes = "ok") =>
          /\ events = <<>>
          /\ ~listed
          /\ pc = "loop" => (ENABLED Timeout /\ ~ENABLED PollNext
                             /\ ~ENABLED FetchMessages)
          /\ outcome # "running" =>
                /\ outcome = "threw"
                /\ error = [message |->
                               "OpenAI Assistant error: Assistant run timeout"]

C3_Witness ==
    /\ polls = MaxPolls
    /\ outcome = "threw"
    /\ error = [message |-> "OpenAI Assistant error: Assistant run timeout"]
    /\ lastReq = "getRun"

\* C4: a makeApiCall makes at most 3 attempts; while an attempt is in flight
\* and when the call has returned, every earlier attempt was answered 429
\* and was followed by one 60 s wait (so a success after two 429s comes after
\* exactly two waits); a call that ends on a 429 has made 3 attempts, two
\* waits, and the invocation throws the wrapped error.
C4_RetryPolicy ==
    call # NoVal =>
        /\ call.attempts <= 3
        /\ call.phase \in {"wait", "returned"} =>
              /\ call.n429 = call.attempts - 1
              /\ call.waited = call.n429 * 60000
        /\ (call.phase = "threw" /\ lastRes = "429") =>
              /\ call.attempts = 3
              /\ call.n429 = 3
              /\ call.waited = 2 * 60000
              /\ outcome = "threw"
              /\ error = [message |-> "OpenAI Assistant error: "
                            \o "OpenAI Assistant API error: Rate limit reached"]

C4_Witness ==
    /\ call # NoVal
    /\ call.phase = "returned"
    /\ call.n429 = 2
    /\ call.waited = 120000
    /\ call.attempts = 3

C4_WitnessExhausted ==
    call # NoVal /\ call.phase = "threw" /\ lastRes = "429"

SubmitCall == call # NoVal /\ ReqKind(call) = "submitToolOutputs"

\* C5: a submit_tool_outputs request carries, in the order of the tool
\* calls listed by the run object just observed, one output per tool call:
\* that tool call's id with the placeholder text; the submission leaves the
\* elapsed-time counter at one poll interval per fetch made so far, and
\* after it polling goes on while the budget lasts.
C5_ToolOutputs ==
    /\ (SubmitCall /\ call.phase \in {"send", "wait", "backoff"}) =>
          /\ observed = "requires_action"
          /\ currentRun.required_action # NoVal
          /\ LET toolCalls ==
                     currentRun.required_action.submit_tool_outputs.tool_calls
                 outputs == call.data.tool_outputs
             IN  /\ Len(outputs) = Len(toolCalls)
                 /\ \A i \in 1..Len(toolCalls) :
                       outputs[i] =
                           [tool_call_id |-> toolCalls[i].id,
                            output |-> "Tool execution not implemented"]
          /\ elapsedTime = polls * pollInterval
    /\ (pc = "loop" /\ lastReq = "submitToolOutputs") =>
          /\ lastRes = "ok"
          /\ elapsedTime = polls * pollInterval
          /\ polls >= 1
          /\ elapsedTime < maxWaitTime => ENABLED PollNext

C5_Witness ==
    /\ pc = "poll"
    /\ wire # NoVal
    /\ polls = 3
    /\ elapsedTime = 3000
    /\ currentRun.status = "requires_action"
    /\ currentRun.required_action # NoVal
    /\ Len(currentRun.required_action.submit_tool_outputs.tool_calls) = 2

\* C6: once a run-status fetch has observed failed, cancelled or expired,
\* the invocation is over: it has thrown the run-failure error naming the
\* status and the remote last_error ("code: message") or, without one, "No
\* error details available"; nothing is in flight, list-messages was not
\* requested, nothing was emitted, and no step is possible.
C6_RunFailure ==
    observed \in FailureStatuses =>
        /\ outcome = "threw"
        /\ pc = "done"
        /\ error = [message |->
              "OpenAI Assistant error: Assistant run " \o observed \o ": "
              \o (IF observedError # NoVal
                  THEN observedError.code \o ": " \o observedError.message
                  ELSE "No error details available")]
        /\ lastReq = "getRun"
        /\ lastRes = "ok"
        /\ wire = NoVal
        /\ call = NoVal
        /\ ~listed
        /\ events = <<>>
        /\ ~ENABLED Next

C6_Witness ==
    /\ observed = "expired"
    /\ observedError # NoVal
    /\ outcome = "threw"
    /\ polls = 2

\* C7: with an empty assistant identifier no request ever goes out, and the
\* invocation, once started, has thrown the configuration error.
C7_MissingAssistantId ==
    assistantId = "" =>
        /\ lastReq = "none"
        /\ wire = NoVal
        /\ call = NoVal
        /\ remoteThreads = {}
        /\ pc # "start" =>
              /\ outcome = "threw"
              /\ error = [message |-> "OpenAI Assistant ID is required"]

C7_Witness == assistantId = "" /\ outcome = "threw" /\ lastReq = "none"

\* C8 as stated: an invocation that is over has created exactly one thread
\* and at most one run.
C8_ExactlyOneThread ==
    outcome # "running" =>
        Cardinality(remoteThreads) = 1 /\ Cardinality(remoteRuns) <= 1

\* C8 as amended: at most one thread and at most one run are created;
\* exactly one thread exists as soon as thread creation has succeeded (any
\* later request has gone out), and one thread and one run when the
\* invocation returns; every request that names a thread or a run names the
\* created one.
C8_OneThreadOneRun ==
    /\ Cardinality(remoteThreads) <= 1
    /\ Cardinality(remoteRuns) <= 1
    /\ lastReq \notin {"none", "createThread"} =>
          Cardinality(remoteThreads) = 1
    /\ lastReq \in {"getRun", "submitToolOutputs", "listMessages"} =>
          Cardinality(remoteRuns) = 1
    /\ outcome = "returned" =>
          Cardinality(remoteThreads) = 1 /\ Cardinality(remoteRuns) = 1
    /\ wire # NoVal =>
          /\ Len(wire.endpoint) >= 2 => wire.endpoint[2] \in remoteThreads
          /\ Len(wire.endpoint) >= 4 => wire.endpoint[4] \in remoteRuns

C8_Witness ==
    /\ wire # NoVal
    /\ ReqKind(wire) = "submitToolOutputs"
    /\ remoteThreads = {"thread_2"}
    /\ remoteRuns = {"run_2"}
    /\ call.retryCount = 2

\* C9: once a request has failed with anything but a 429, the invocation
\* is over with an error: the failed request is the last one ever sent,
\* nothing is in flight and no step is possible.
C9_NoOtherRecovery ==
    lastRes = "error" =>
        /\ outcome = "threw"
        /\ error # NoVal
        /\ pc = "done"
        /\ wire = NoVal
        /\ call.phase = "threw"
        /\ call.attempts = call.n429 + 1
        /\ ~ENABLED Next

C9_Witness ==
    /\ lastRes = "error"
    /\ lastReq = "getRun"
    /\ call.n429 = 1
    /\ polls = 2
    /\ error = [message |-> "OpenAI Assistant error: "
                  \o "OpenAI Assistant API error: Network Error"]

\* The text values of the text-typed parts of a message content, in order
RECURSIVE TextValues(_)
TextValues(content) ==
    IF content = <<>> THEN <<>>
    ELSE (IF Head(content).type = "text" /\ Head(content).text # NoVal
          THEN <<Head(content).text.value>>
          ELSE <<>>) \o TextValues(Tail(content))

RECURSIVE Lines(_)
Lines(values) ==
    IF values = <<>> THEN ""
    ELSE IF Len(values) = 1 THEN values[1]
    ELSE values[1] \o "\n" \o Lines(Tail(values))

FirstAssistantIndex(data) ==
    CHOOSE i \in 1..Len(data) :
        /\ data[i].role = "assistant"
        /\ \A j \in 1..(i - 1) : data[j].role # "assistant"

\* C10: against a run that goes queued -> in_progress -> completed, the text
\* event, once emitted, carries the text values of the text-typed parts of
\* the first assistant-role message of the listing, in order, joined by
\* newlines, whatever stands before or after that message.
C10_FirstAssistantText ==
    pc \in {"yieldText", "yieldUsage"} =>
        /\ polls = 2
        /\ observed = "completed"
        /\ LET data == messagesResponse.data
           IN  /\ \E i \in 1..Len(data) : data[i].role = "assistant"
               /\ events[1] =
                     [type |-> "text",
                      text |-> Lines(TextValues(
                          data[FirstAssistantIndex(data)].content))]

C10_Witness ==
    /\ pc = "yieldText"
    /\ messagesResponse.data =
          <<UserEntry, AssistantEntry(<<TextValue("b"), TextValue("a")>>)>>
    /\ events = <<[type |-> "text", text |-> "b\na"]>>

C10_WitnessLater ==
    /\ pc = "yieldText"
    /\ messagesResponse.data =
          <<AssistantEntry(<<ImageFile, TextValue("a")>>),
            AssistantEntry(<<TextValue("b")>>)>>
    /\ events = <<[type |-> "text", text |-> "a"]>>

\* C11: once a listing without any assistant-role message has been received
\* (the run having been observed completed), the invocation is over: it has
\* thrown "No assistant response found" and has emitted nothing.
C11_EmptyResponse ==
    answers = 0 =>
        /\ observed = "completed"
        /\ outcome = "threw"
        /\ error = [message |->
              "OpenAI Assistant error: No assistant response found"]
        /\ events = <<>>
        /\ pc = "done"
        /\ ~ENABLED Next

C11_Witness ==
    /\ answers = 0
    /\ outcome = "threw"
    /\ polls = 2
    /\ lastReq = "listMessages"
    /\ lastRes = "ok"

\* An error message that carries the wrapping of createMessage's catch
\* block: it starts with "<providerName> error: "
WrapPrefix == providerName \o " error: "

Wrapped(err) ==
    /\ Len(err.message) >= Len(WrapPrefix)
    /\ SubSeq(err.message, 1, Len(WrapPrefix)) = WrapPrefix

\* C12: every error an invocation raises to its caller has been wrapped with
\* the provider's display name. The code breaks this for the configuration
\* error, which is thrown before the try block is entered (lines 152-154).
C12_AllWrapped ==
    outcome = "threw" => Wrapped(error)

C12_Witness ==
    /\ outcome = "threw"
    /\ assistantId = ""
    /\ error = [message |-> "OpenAI Assistant ID is required"]
    /\ ~Wrapped(error)

\* C17: inside the poll loop the elapsed counter is pollInterval times the
\* number of run-status fetches started, it never decreases while the
\* invocation runs, and at most MaxPolls fetches are started. A run observed
\* completed goes on to the listing whatever the number of fetches (1 to
\* MaxPolls), and the timeout error is raised only after MaxPolls fetches,
\* the last of which (like every one before it) observed a status that is
\* neither completed nor a failure.
InPollLoop == pc \in {"loop", "poll", "submit"}

C17_Counter ==
    /\ InPollLoop => elapsedTime = polls * pollInterval
    /\ polls \in 0..MaxPolls
    /\ (pc = "loop" /\ runStatus = "completed") =>
           /\ ENABLED FetchMessages
           /\ ~ENABLED Timeout
           /\ ~ENABLED PollNext
    /\ error = WrapError([message |-> "Assistant run timeout"]) =>
           /\ polls = MaxPolls
           /\ observed \in Unfinished

C17_Steps ==
    /\ (InPollLoop /\ pc' # "done") => elapsedTime' >= elapsedTime
    /\ polls' >= polls
    /\ polls' > polls =>
           /\ polls' = polls + 1
           /\ elapsedTime' = elapsedTime + pollInterval
           /\ polls >= 1 => observed \in Unfinished
           /\ pc = "loop" /\ pc' = "poll"
           /\ call'.endpoint = RunPath(thread.id, run.id)

C17_ElapsedCounter == [](C17_Counter) /\ [][C17_Steps]_vars

C17_Witness ==
    /\ pc = "listMessages"
    /\ polls = MaxPolls
    /\ observed = "completed"
    /\ call.attempts = 0

C17_WitnessTimeout ==
    /\ error = WrapError([message |-> "Assistant run timeout"])
    /\ polls = MaxPolls

\* C19: a submit_tool_outputs call is started exactly by the step in which a
\* run-status fetch is answered with status requires_action and a
\* required_action payload, and that on every such fetch, the MaxPolls-th
\* included; a fetch answered requires_action without the payload starts no
\* submission and leaves the loop polling while the budget lasts.
FetchAnswered ==
    /\ pc = "poll"
    /\ wire # NoVal
    /\ wire' = NoVal
    /\ lastRes' = "ok"

ActionRequired ==
    /\ pc # "done"
    /\ currentRun # NoVal
    /\ currentRun.status = "requires_action"
    /\ currentRun.required_action # NoVal

C19_Steps ==
    /\ FetchAnswered =>
          /\ (pc' = "submit") <=> ActionRequired'
          /\ pc' = "submit" =>
                /\ call'.phase = "send"
                /\ call'.attempts = 0
                /\ call'.method = "POST"
                /\ call'.endpoint = SubmitPath(thread.id, run.id)
          /\ (pc' # "done" /\ ~ActionRequired') =>
                /\ pc' = "loop"
                /\ call'.phase = "returned"
    /\ (pc' = "submit" /\ pc # "submit") => FetchAnswered
    /\ (SubmitCall' /\ call'.attempts = 0 /\ call' # call) => FetchAnswered

C19_Polling ==
    /\ pc = "submit" => ActionRequired /\ SubmitCall
    /\ (SubmitCall /\ call.phase \in {"send", "wait", "backoff"}) =>
          pc = "submit"
    /\ (pc = "loop" /\ runStatus = "requires_action"
          /\ elapsedTime < maxWaitTime) => ENABLED PollNext

C19_SubmitOnRequiresAction == [](C19_Polling) /\ [][C19_Steps]_vars

\* The tool outputs are on the wire after the last fetch the budget allows
C19_Witness ==
    /\ pc = "submit"
    /\ polls = MaxPolls
    /\ wire # NoVal
    /\ ReqKind(wire) = "submitToolOutputs"

\* requires_action without a payload: no submission, the loop goes on
C19_WitnessNoPayload ==
    /\ pc = "loop"
    /\ polls = 2
    /\ currentRun.status = "requires_action"
    /\ currentRun.required_action = NoVal
    /\ lastReq = "getRun"
    /\ ENABLED PollNext

\* C14: the poll budget is a wall-clock ceiling: with the time measured over
\* every wait after the run's creation (poll sleeps and rate-limit
\* backoffs), no run-status fetch is on its way later than maxWaitTime after
\* the creation, and a run not seen completed by then can only time out.
\* The code counts the poll sleeps only (line 189), so this fails.
C14_WallClockCeiling ==
    /\ (wire # NoVal /\ ReqKind(wire) = "getRun") => clock <= maxWaitTime
    /\ (pc = "loop" /\ runStatus # "completed" /\ clock >= maxWaitTime) =>
          /\ ENABLED Timeout
          /\ ~ENABLED PollNext

\* Five fetches, each rate-limited at least once: more than maxWaitTime has
\* gone by and the fifth fetch is on its way again
C14_Witness ==
    /\ wire # NoVal
    /\ ReqKind(wire) = "getRun"
    /\ polls = 5
    /\ elapsedTime = 5 * pollInterval
    /\ clock > maxWaitTime

\* C20: the 429 retry budget belongs to the call. A call starts with retry
\* count 0 and nothing waited, whatever the calls before it did; inside a
\* call the retry count is the number of its own attempts that were answered
\* 429 and retried, so every call may be attempted maxRetries + 1 times, and
\* an attempt answered 429 is retried while fewer than that were made.
C20_Frame ==
    call # NoVal =>
        /\ call.retryCount \in 0..maxRetries
        /\ call.attempts \in 0..(maxRetries + 1)
        /\ call.phase = "send" =>
              /\ call.attempts = call.retryCount
              /\ call.n429 = call.retryCount
        /\ call.phase = "wait" =>
              /\ call.attempts = call.retryCount + 1
              /\ call.n429 = call.retryCount
              /\ call.attempts <= maxRetries =>
                    ENABLED (AxiosThrows /\ call'.phase = "backoff")
              /\ call.attempts = maxRetries + 1 =>
                    ~ENABLED (AxiosThrows /\ call'.phase = "backoff")
        /\ call.phase = "backoff" =>
              /\ call.attempts = call.retryCount + 1
              /\ call.n429 = call.attempts
        /\ call.phase \in {"send", "wait", "backoff"} =>
              call.waited = call.retryCount * retryDelay

C20_NewCall ==
    (call' # NoVal /\ call' # call /\ call'.attempts = 0) =>
        /\ call'.retryCount = 0
        /\ call'.phase = "send"
        /\ call'.n429 = 0
        /\ call'.waited = 0

C20_PerCallBudget == [](C20_Frame) /\ [][C20_NewCall]_vars

\* The second run-status fetch is on its third attempt although the first
\* fetch had used both of its retries: four backoffs and two poll sleeps
C20_Witness ==
    /\ pc = "poll"
    /\ polls = 2
    /\ call.phase = "wait"
    /\ call.attempts = maxRetries + 1
    /\ clock = 2 * pollInterval + 2 * maxRetries * retryDelay

\* The text values of the text-typed parts of a content list, in order
RECURSIVE PartTexts(_)
PartTexts(parts) ==
    IF parts = <<>> THEN <<>>
    ELSE (IF Head(parts).type = "text" THEN <<Head(parts).text>> ELSE <<>>)
         \o PartTexts(Tail(parts))

\* "{role}: {content}" for a string, "{role}: " and the text parts one per
\* line for a list
Entry(msg) ==
    IF msg.content.kind = "string"
    THEN msg.role \o ": " \o msg.content.text
    ELSE msg.role \o ": " \o Lines(PartTexts(msg.content.parts))

\* Strings put together with an empty line between them
RECURSIVE Paragraphs(_)
Paragraphs(entries) ==
    IF entries = <<>> THEN ""
    ELSE IF Len(entries) = 1 THEN entries[1]
    ELSE Paragraphs(SubSeq(entries, 1, Len(entries) - 1))
         \o "\n\n" \o entries[Len(entries)]

Flattened == pc = "postMessage"

Posted ==
    /\ Flattened
    /\ wire # NoVal
    /\ ReqKind(wire) = "postMessage"

HasText(msg) ==
    \/ msg.content.kind = "string"
    \/ msg.content.kind = "parts" /\ PartTexts(msg.content.parts) # <<>>

IsStringOrList(msg) == msg.content.kind \in {"string", "parts"}

\* The entries, in order, of the messages that have text (textOnly) or whose
\* content is a string or a list
RECURSIVE Entries(_, _)
Entries(msgs, textOnly) ==
    IF msgs = <<>> THEN <<>>
    ELSE (IF (IF textOnly THEN HasText(Head(msgs))
                          ELSE IsStringOrList(Head(msgs)))
          THEN <<Entry(Head(msgs))>> ELSE <<>>)
         \o Entries(Tail(msgs), textOnly)

\* C15: a message whose content reduces to zero text parts (a list without
\* any text-typed part included) leaves nothing in the flattened text: no
\* "role:" entry and no separator. The code keeps "role: " for a list
\* without text parts (lines 302-307: the string is never empty), so this
\* fails.
C15_NoEmptyEntries ==
    Flattened =>
        fullMessage =
            systemPrompt \o "\n\n" \o Paragraphs(Entries(messages, TRUE))

C15_Witness ==
    /\ Posted
    /\ systemPrompt = "sys"
    /\ messages = <<[role |-> "user",
                     content |-> PartsContent(<<ImagePart>>)]>>
    /\ wire.data.content = "sys\n\nuser: "

\* C16: the flattened text is the system prompt, two newlines, and the
\* per-message strings of the messages whose content is a string or a list,
\* in order, with two newlines between them; a string content gives
\* "{role}: {content}", a list "{role}: " and its text parts joined by a
\* newline; without messages it is the system prompt and two newlines. It
\* is what is posted to the thread.
C16_FlattenedText ==
    /\ Flattened =>
          /\ fullMessage =
                systemPrompt \o "\n\n"
                \o Paragraphs(Entries(messages, FALSE))
          /\ messages = <<>> => fullMessage = systemPrompt \o "\n\n"
    /\ Posted => wire.data = [role |-> "user", content |-> fullMessage]

C16_Witness ==
    /\ Posted
    /\ systemPrompt = "sys"
    /\ Len(messages) = 2
    /\ messages[1].content = PartsContent(<<TextPart("a"), TextPart("b")>>)
    /\ messages[2].content = StringContent("hi")
    /\ wire.data.content = "sys\n\nuser: a\nb\n\nassistant: hi"

C16_WitnessEmpty ==
    /\ Posted
    /\ messages = <<>>
    /\ wire.data.content = "sys\n\n"

\* The thread and run ids a request is addressed to
IdsIn(req) ==
    {req.endpoint[i] : i \in 1..Len(req.endpoint)} \cap (ThreadIds \cup RunIds)

\* The ids in the request an invocation has in flight and in its call frame
Addressed(r) ==
    (IF r.wire # NoVal THEN IdsIn(r.wire) ELSE {})
    \cup (IF r.call # NoVal THEN IdsIn(r.call) ELSE {})

\* An invocation addresses only the thread and the run returned to it, of
\* which it has at most one each
OwnIdsOnly(r) ==
    /\ Addressed(r) \subseteq r.mine
    /\ Cardinality(r.mine \cap ThreadIds) <= 1
    /\ Cardinality(r.mine \cap RunIds) <= 1
    /\ r.thread # NoVal => r.thread.id \in r.mine
    /\ r.run # NoVal => r.run.id \in r.mine
    /\ r.pc \notin {"start", "createThread", "done"} => r.thread # NoVal

\* What an invocation ended with follows from what it met itself: an error
\* from the missing assistant id, a request of its own that failed, a
\* failure status or an empty listing it received; both events otherwise
OwnOutcome(r) ==
    /\ r.outcome = "threw" =>
          \/ assistantId = ""
          \/ r.lastRes \in {"429", "error"}
          \/ r.observed \in FailureStatuses
          \/ r.answers = 0
    /\ r.outcome = "returned" =>
          /\ Len(r.events) = 2
          /\ r.lastRes = "ok"
          /\ r.observed = "completed"
          /\ r.answers > 0

C13_Apart ==
    /\ OwnIdsOnly(Regs)
    /\ OwnIdsOnly(other)
    /\ Regs.mine \cap other.mine = {}
    /\ remoteThreads \cup remoteRuns = Regs.mine \cup other.mine
    /\ OwnOutcome(Regs)
    /\ OwnOutcome(other)

\* A step of one invocation, its failing included, leaves the other's
\* registers (its request in flight, its events, its outcome) as they are
C13_Steps ==
    \/ other' = other
    \/ other' = Regs /\ Regs' = other

\* C13: two invocations running concurrently on one handler, in any
\* interleaving: each creates its own thread, every request of an
\* invocation is addressed to the thread and run returned to that
\* invocation only, and an error in one changes neither the requests nor
\* the outcome of the other.
C13_Isolation == [](C13_Apart) /\ [][C13_Steps]_vars

\* One invocation has failed on its run; the other, on its own thread and
\* run, has produced both events
C13_Witness ==
    /\ other # NoVal
    /\ other.outcome = "threw"
    /\ other.observed = "failed"
    /\ Cardinality(other.mine) = 2
    /\ outcome = "returned"
    /\ Len(events) = 2
    /\ Cardinality(mine) = 2

\* Both invocations have a run-status fetch in flight
C13_WitnessInFlight ==
    /\ other # NoVal
    /\ wire # NoVal /\ other.wire # NoVal
    /\ ReqKind(wire) = "getRun" /\ ReqKind(other.wire) = "getRun"
    /\ wire.endpoint # other.wire.endpoint

\* Over: both events were emitted and the generator returned, or it threw
Terminated ==
    /\ pc = "done"
    /\ wire = NoVal
    /\ \/ outcome = "returned" /\ Len(events) = 2
       \/ outcome = "threw" /\ error # NoVal

\* C18: in an environment where every request is answered and every sleep
\* ends, an invocation terminates, with both events or with an error: the
\* poll loop does not go on for ever, and no call is retried for ever under
\* a lasting 429.
C18_Terminates == <>[]Terminated

\* The end of the longest polling: the run fetched MaxPolls times, then
\* both events emitted
C18_Witness ==
    /\ Terminated
    /\ outcome = "returned"
    /\ polls = MaxPolls

C18_WitnessRetriesExhausted ==
    /\ Terminated
    /\ outcome = "threw"
    /\ lastRes = "429"
    /\ call.attempts = maxRetries + 1
    /\ polls = MaxPolls

====
